---- MODULE Spec2Model ----
(***************************************************************************)
(* Model of the DogNFT record service (src/api.py).                        *)
(*                                                                         *)
(* The service is a set of synchronous FastAPI handlers over one SQLite    *)
(* table "nfts".  FastAPI runs each `def` handler in a worker thread, each *)
(* with its own SQLAlchemy Session (get_db), so handlers interleave at     *)
(* their database statements.  Every database statement (a SELECT, or the  *)
(* INSERT/UPDATE flushed by a commit) is one atomic step; what a handler   *)
(* computes between two statements is local to it and is folded into the   *)
(* statement that follows.                                                 *)
(*                                                                         *)
(* The sqlite3 driver opens a transaction only at the first INSERT or      *)
(* UPDATE, so the SELECTs of a handler and its commit are separate         *)
(* transactions and no row is locked between them.                         *)
(*                                                                         *)
(* Session semantics that the handlers rely on (sessionmaker defaults):    *)
(*   - a commit flushes an UPDATE that sets only the attributes whose      *)
(*     value differs from the value the session loaded;                    *)
(*   - expire_on_commit: after a commit the object's attributes are        *)
(*     reloaded from the table on their next access.                       *)
(*                                                                         *)
(* Columns that no handler reads in a condition (description, attributes,  *)
(* contractAddress, tokenId, createdAt, mintedAt) are left out of the rows.*)
(***************************************************************************)
EXTENDS Integers, Sequences, FiniteSets, TLC

\* ---- bounds of the model -------------------------------------------------
NumHandlers == 2
MaxRequests == 5

\* ---- values the requests are drawn from ----------------------------------
Handlers == 1..NumHandlers
Names    == {"CryptoDog #1", "CryptoDog #2"}
Keys     == {"KEY_1", "KEY_2"}
Wallets  == {"0xabc", "0xdef"}

\* the bodies of the generate requests: two names, two keys, two owners, with
\* a name and an owner that two different keys share
GenerateRequests ==
    { [name |-> "CryptoDog #1", dogKey |-> "KEY_1", walletAddress |-> "0xabc"],
      [name |-> "CryptoDog #1", dogKey |-> "KEY_2", walletAddress |-> "0xabc"],
      [name |-> "CryptoDog #2", dogKey |-> "KEY_2", walletAddress |-> "0xdef"] }

\* ---- program constants ---------------------------------------------------
InitialProgress == 0
CreatedProgress == 50
ProgressStep    == 25
ProgressMax     == 100

\* NULL in a string column, null in a string field of a response
NULL == "NULL"

\* no object: a session that holds none, a request body already read
None == <<>>

\* f"nft_{n}"
NftId(n) == "nft_" \o ToString(n)

\* f"https://example.com/nft/{id}.png"
ImageUrl(id) == "https://example.com/nft/" \o id \o ".png"

\* ids a client may poll: those the table can hold, and one it cannot
PollIds == {NftId(n) : n \in 1..(Cardinality(Keys) + 1)}

Min(a, b) == IF a < b THEN a ELSE b

VARIABLES
    nfts,       \* table nfts: the rows in insertion order
    pc,         \* per handler: the statement it executes next ("idle": none)
    req,        \* per handler: the request body it still has to read
    nft,        \* per handler: the ORM object its session holds
    out,        \* the response the step just taken has sent (NoOut: none),
                \* with (history) the operation, what its first query had
                \* found, and for a status read of a record which one it was
    started,    \* number of requests received so far
    nth,        \* history, per handler: which status read of its record the
                \* handler is serving
    hist,       \* history, per id: whether two requests on the record ever
                \* overlapped, and until then the number of its status reads
    keyCalls    \* history, per dogKey: generate requests received with it
                \* (0: none, 1: one, 2: two or more)

vars == <<nfts, pc, req, nft, out, started, nth, hist, keyCalls>>

\* ---- the table -----------------------------------------------------------
Rows(rows) == {rows[i] : i \in 1..Len(rows)}

\* db.query(NFT).filter(NFT.name == name).first()
ByName(rows, name) == {r \in Rows(rows) : r.name = name}

\* db.query(NFT).filter(NFT.dogKey == dogKey).first()
ByKey(rows, dogKey) == {r \in Rows(rows) : r.dogKey = dogKey}

\* db.query(NFT).filter(NFT.walletAddress == walletAddress).all()
ByWallet(rows, wallet) == SelectSeq(rows, LAMBDA r : r.walletAddress = wallet)

\* session.get / refresh by primary key
ById(rows, id) == {r \in Rows(rows) : r.id = id}

Row(rows, id) == CHOOSE r \in Rows(rows) : r.id = id

\* (mutation of RejectsInsert: dogKey declared without unique=True)
RejectsInsertNoUniqueKey(rows, row) == \E r \in Rows(rows) : r.id = row.id

\* Column(String, primary_key=True) on id, Column(..., unique=True) on dogKey:
\* the INSERT raises IntegrityError when either value is already in the table
RejectsInsert(rows, row) ==
    \/ \E r \in Rows(rows) : r.id = row.id
    \/ \E r \in Rows(rows) : r.dogKey = row.dogKey

\* (mutation of KeyTaken: the lookup filters on the name column)
KeyTakenByName(rows, dogKey) == ByName(rows, dogKey) # {}

\* existing_key = ...filter(NFT.dogKey == request.dogKey).first(); if existing_key
KeyTaken(rows, dogKey) == ByKey(rows, dogKey) # {}

\* (mutation of FindOwned: the lookup filters on the id alone)
FindAnyOwner(rows, id, wallet) == {r \in Rows(rows) : r.id = id}

\* db.query(NFT).filter(NFT.id == id, NFT.walletAddress == walletAddress).first()
FindOwned(rows, id, wallet) ==
    {r \in Rows(rows) : r.id = id /\ r.walletAddress = wallet}

\* NFT(id=f"nft_{len(db.query(NFT).all()) + 1}", ..., status="generating", progress=0)
NewNFT(rq, count) ==
    [id            |-> NftId(count + 1),
     name          |-> rq.name,
     dogKey        |-> rq.dogKey,
     walletAddress |-> rq.walletAddress,
     status        |-> "generating",
     progress      |-> InitialProgress,
     imageUrl      |-> NULL]

\* (mutation of Advance: the increment is applied without the transition to ready)
AdvanceNoReady(obj) ==
    [obj EXCEPT !.progress = Min(obj.progress + ProgressStep, ProgressMax)]

\* the body of `if nft.status == "generating":` applied to the loaded object
Advance(obj) ==
    LET p == Min(obj.progress + ProgressStep, ProgressMax)
    IN  IF p = ProgressMax
        THEN [obj EXCEPT !.progress = p,
                         !.status   = "ready",
                         !.imageUrl = ImageUrl(obj.id)]
        ELSE [obj EXCEPT !.progress = p]

\* db.commit() with a dirty object: UPDATE nfts SET <the attributes whose value
\* differs from the loaded one> WHERE id = obj.id
Flush(rows, loaded, obj) ==
    [i \in 1..Len(rows) |->
        IF rows[i].id = obj.id
        THEN [rows[i] EXCEPT
                !.progress = IF obj.progress # loaded.progress THEN obj.progress ELSE @,
                !.status   = IF obj.status   # loaded.status   THEN obj.status   ELSE @,
                !.imageUrl = IF obj.imageUrl # loaded.imageUrl THEN obj.imageUrl ELSE @]
        ELSE rows[i]]

\* ---- requests and responses ----------------------------------------------
NoResp == [http |-> 0, body |-> [code |-> "NONE"]]

Ok(body) == [http |-> 200, body |-> body]

\* raise HTTPException(status_code=400, detail={..., "code": "DUPLICATE_KEY"})
DuplicateKeyError ==
    [http |-> 400, body |-> [error |-> "Dog key must be unique", code |-> "DUPLICATE_KEY"]]
\* raise HTTPException(status_code=404, detail={..., "code": "NFT_NOT_FOUND"})
NotFoundError ==
    [http |-> 404, body |-> [error |-> "NFT not found", code |-> "NFT_NOT_FOUND"]]
\* raise HTTPException(status_code=404, detail={..., "code": "NO_NFTS"})
EmptyResultError ==
    [http |-> 404, body |-> [error |-> "No NFTs found for this wallet", code |-> "NO_NFTS"]]
\* sqlalchemy.exc.IntegrityError out of db.commit(), which the handler does not
\* catch: the framework answers 500
IntegrityError ==
    [http |-> 500, body |-> [error |-> "Internal Server Error", code |-> "INTEGRITY_ERROR"]]

\* the dict returned by generate_nft
GenerateBody(o) ==
    [id |-> o.id, status |-> o.status, name |-> o.name, dogKey |-> o.dogKey,
     walletAddress |-> o.walletAddress]

\* the dict returned by get_nft_status
StatusBody(o) ==
    [id |-> o.id, status |-> o.status, progress |-> o.progress,
     imageUrl |-> o.imageUrl, walletAddress |-> o.walletAddress]

\* one element of nft_list in get_nft_collection
CollectionItem(o) ==
    [id |-> o.id, name |-> o.name, status |-> o.status, imageUrl |-> o.imageUrl,
     dogKey |-> o.dogKey, walletAddress |-> o.walletAddress]

\* ---- history helpers -----------------------------------------------------
\* another handler is between its first and last statement on record id
InFlight(h, id) ==
    \E g \in Handlers \ {h} :
        /\ pc[g] \in {"gen_refresh", "gen_update", "gen_respond", "st_commit", "st_respond"}
        /\ nft[g].id = id

Sent(op, r, what, n, key) ==
    [op |-> op, resp |-> r, what |-> what, nth |-> n, dogKey |-> key]

NoOut == Sent("none", NoResp, "none", 0, NULL)

\* the worker pool hands a request to a free worker; the workers are
\* interchangeable, so the free worker with the smallest number takes it
CanStart(h) ==
    /\ started < MaxRequests
    /\ pc[h] = "idle"
    /\ \A g \in Handlers : g < h => pc[g] # "idle"

\* ---- initial state -------------------------------------------------------
\* Base.metadata.create_all on a new database file: an empty table
Init ==
    /\ nfts    = <<>>
    /\ pc       = [h \in Handlers |-> "idle"]
    /\ req      = [h \in Handlers |-> None]
    /\ nft      = [h \in Handlers |-> None]
    /\ out      = NoOut
    /\ started  = 0
    /\ nth      = [h \in Handlers |-> 0]
    /\ hist     = [id \in PollIds |-> [polls |-> 0, raced |-> FALSE]]
    /\ keyCalls = [k \in Keys |-> 0]

\* ---- POST /api/nft/check-name --------------------------------------------
check_name(h, name) ==
    /\ CanStart(h)
    /\ started' = started + 1
    /\ out' = Sent("check_name", Ok([available |-> ByName(nfts, name) = {}]),
                   "none", 0, NULL)
    /\ UNCHANGED <<nfts, pc, req, nft, nth, hist, keyCalls>>

\* ---- POST /api/nft/check-key ---------------------------------------------
check_key(h, dogKey) ==
    /\ CanStart(h)
    /\ started' = started + 1
    /\ out' = Sent("check_key",
                   Ok([valid |-> TRUE, unique |-> ByKey(nfts, dogKey) = {}]),
                   "none", 0, NULL)
    /\ UNCHANGED <<nfts, pc, req, nft, nth, hist, keyCalls>>

\* ---- POST /api/nft/generate ----------------------------------------------
\* existing_key = db.query(NFT).filter(NFT.dogKey == request.dogKey).first()
\* if existing_key: raise HTTPException(400, DUPLICATE_KEY)
generate_nft_lookup(h, request) ==
    /\ CanStart(h)
    /\ started' = started + 1
    /\ keyCalls' = [keyCalls EXCEPT ![request.dogKey] = IF @ = 0 THEN 1 ELSE 2]
    /\ IF KeyTaken(nfts, request.dogKey)
       THEN /\ out' = Sent("generate", DuplicateKeyError, "dup", 0, request.dogKey)
            /\ UNCHANGED <<pc, req>>
       ELSE /\ req' = [req EXCEPT ![h] = request]
            /\ pc'  = [pc EXCEPT ![h] = "gen_count"]
            /\ out' = NoOut
    /\ UNCHANGED <<nfts, nft, nth, hist>>

\* new_nft = NFT(id=f"nft_{len(db.query(NFT).all()) + 1}", ...)
generate_nft_count(h) ==
    /\ pc[h] = "gen_count"
    /\ nft' = [nft EXCEPT ![h] = NewNFT(req[h], Len(nfts))]
    /\ req' = [req EXCEPT ![h] = None]
    /\ pc'  = [pc EXCEPT ![h] = "gen_insert"]
    /\ out' = NoOut
    /\ UNCHANGED <<nfts, started, nth, hist, keyCalls>>

\* db.add(new_nft); db.commit()
generate_nft_insert(h) ==
    /\ pc[h] = "gen_insert"
    /\ IF RejectsInsert(nfts, nft[h])
       THEN /\ nfts' = nfts
            /\ out'   = Sent("generate", IntegrityError, "free", 0, nft[h].dogKey)
            /\ nft'   = [nft EXCEPT ![h] = None]
            /\ pc'    = [pc EXCEPT ![h] = "idle"]
       ELSE /\ nfts' = Append(nfts, nft[h])
            /\ pc'    = [pc EXCEPT ![h] = "gen_refresh"]
            /\ out'   = NoOut
            /\ nft'   = nft
    /\ UNCHANGED <<req, started, nth, hist, keyCalls>>

\* db.refresh(new_nft)
generate_nft_refresh(h) ==
    /\ pc[h] = "gen_refresh"
    /\ nft' = [nft EXCEPT ![h] = Row(nfts, nft[h].id)]
    /\ pc'  = [pc EXCEPT ![h] = "gen_update"]
    /\ out' = NoOut
    /\ UNCHANGED <<nfts, req, started, nth, hist, keyCalls>>

\* new_nft.progress = 50; db.commit()
generate_nft_update(h) ==
    /\ pc[h] = "gen_update"
    /\ nfts' = Flush(nfts, nft[h], [nft[h] EXCEPT !.progress = CreatedProgress])
    /\ pc'    = [pc EXCEPT ![h] = "gen_respond"]
    /\ out'   = NoOut
    /\ UNCHANGED <<req, nft, started, nth, hist, keyCalls>>

\* return {"id": new_nft.id, "status": new_nft.status, ...}: the attributes,
\* expired by the commit, are reloaded from the table
generate_nft_return(h) ==
    /\ pc[h] = "gen_respond"
    /\ out' = Sent("generate", Ok(GenerateBody(Row(nfts, nft[h].id))),
                   "free", 0, nft[h].dogKey)
    /\ nft' = [nft EXCEPT ![h] = None]
    /\ pc'  = [pc EXCEPT ![h] = "idle"]
    /\ UNCHANGED <<nfts, req, started, nth, hist, keyCalls>>

\* ---- GET /api/nft/status/{id} --------------------------------------------
\* nft = db.query(NFT).filter(NFT.id == id, NFT.walletAddress == walletAddress).first()
\* if not nft: raise 404; if nft.status != "generating": return the loaded object
get_nft_status_query(h, id, wallet) ==
    /\ CanStart(h)
    /\ started' = started + 1
    /\ LET found == FindOwned(nfts, id, wallet)
       IN  IF found = {}
           THEN /\ out' = Sent("status", NotFoundError,
                               IF ById(nfts, id) # {} THEN "wrongowner" ELSE "absent",
                               0, NULL)
                /\ UNCHANGED <<pc, nft, nth, hist>>
           ELSE LET o == CHOOSE r \in found : TRUE
                    overlap == hist[id].raced \/ InFlight(h, id)
                    n == IF overlap THEN 0 ELSE hist[id].polls + 1
                IN  /\ hist' = [hist EXCEPT ![id] = [polls |-> n, raced |-> overlap]]
                    /\ IF o.status = "generating"
                       THEN /\ nft' = [nft EXCEPT ![h] = o]
                            /\ nth' = [nth EXCEPT ![h] = n]
                            /\ pc'  = [pc EXCEPT ![h] = "st_commit"]
                            /\ out' = NoOut
                       ELSE /\ out' = Sent("status", Ok(StatusBody(o)), "ready", n, NULL)
                            /\ UNCHANGED <<pc, nft, nth>>
    /\ UNCHANGED <<nfts, req, keyCalls>>

\* nft.progress = min(nft.progress + 25, 100); if nft.progress == 100: ...; db.commit()
get_nft_status_commit(h) ==
    /\ pc[h] = "st_commit"
    /\ nfts' = Flush(nfts, nft[h], Advance(nft[h]))
    /\ pc'    = [pc EXCEPT ![h] = "st_respond"]
    /\ out'   = NoOut
    /\ UNCHANGED <<req, nft, started, nth, hist, keyCalls>>

\* return {"id": nft.id, "status": nft.status, "progress": nft.progress, ...}:
\* the attributes, expired by the commit, are reloaded from the table
get_nft_status_return(h) ==
    /\ pc[h] = "st_respond"
    /\ out' = Sent("status", Ok(StatusBody(Row(nfts, nft[h].id))),
                   "generating", nth[h], NULL)
    /\ nft' = [nft EXCEPT ![h] = None]
    /\ nth' = [nth EXCEPT ![h] = 0]
    /\ pc'  = [pc EXCEPT ![h] = "idle"]
    /\ UNCHANGED <<nfts, req, started, hist, keyCalls>>

\* ---- GET /api/nft/collection/{walletAddress} -----------------------------
get_nft_collection(h, wallet) ==
    /\ CanStart(h)
    /\ started' = started + 1
    /\ LET owned == ByWallet(nfts, wallet)
       IN  out' = Sent("collection",
                       IF owned = <<>>
                       THEN EmptyResultError
                       ELSE Ok([i \in 1..Len(owned) |-> CollectionItem(owned[i])]),
                       "none", 0, NULL)
    /\ UNCHANGED <<nfts, pc, req, nft, nth, hist, keyCalls>>

\* ---- the service ---------------------------------------------------------
\* the statements of generate_nft
GenerateStep(h) ==
    \/ \E r \in GenerateRequests : generate_nft_lookup(h, r)
    \/ generate_nft_count(h)
    \/ generate_nft_insert(h)
    \/ generate_nft_refresh(h)
    \/ generate_nft_update(h)
    \/ generate_nft_return(h)

\* the statements of the other handlers
OtherStep(h) ==
    \/ \E n \in Names : check_name(h, n)
    \/ \E k \in Keys : check_key(h, k)
    \/ \E id \in PollIds, w \in Wallets : get_nft_status_query(h, id, w)
    \/ get_nft_status_commit(h)
    \/ get_nft_status_return(h)
    \/ \E w \in Wallets : get_nft_collection(h, w)

\* every worker thread runs its handler concurrently with the others
Next == \E h \in Handlers : GenerateStep(h) \/ OtherStep(h)

Spec == Init /\ [][Next]_vars

\* the service when its clients send generate requests only
GenerateNext == \E h \in Handlers : GenerateStep(h)

SpecGenerate == Init /\ [][GenerateNext]_vars

\* the service when its clients send one request at a time, each after the
\* response to the one before
Alone(h) == \A g \in Handlers \ {h} : pc[g] = "idle"

SequentialNext ==
    \E h \in Handlers :
        \/ \E r \in GenerateRequests : Alone(h) /\ generate_nft_lookup(h, r)
        \/ generate_nft_count(h)
        \/ generate_nft_insert(h)
        \/ generate_nft_refresh(h)
        \/ generate_nft_update(h)
        \/ generate_nft_return(h)
        \/ \E n \in Names : Alone(h) /\ check_name(h, n)
        \/ \E k \in Keys : Alone(h) /\ check_key(h, k)
        \/ \E id \in PollIds, w \in Wallets : Alone(h) /\ get_nft_status_query(h, id, w)
        \/ get_nft_status_commit(h)
        \/ get_nft_status_return(h)
        \/ \E w \in Wallets : Alone(h) /\ get_nft_collection(h, w)

SpecSequential == Init /\ [][SequentialNext]_vars

\* ---- properties ----------------------------------------------------------
HasKey(k) == \E r \in Rows(nfts) : r.dogKey = k

StatusOk == out.op = "status" /\ out.resp.http = 200

\* C1: a generate request whose dogKey is the dogKey of a stored record fails
\* with DuplicateKeyError (400, DUPLICATE_KEY), ends there, and leaves the
\* table as it was.
C1_DuplicateKeyRejected ==
    [][\A h \in Handlers, r \in GenerateRequests :
          (generate_nft_lookup(h, r) /\ HasKey(r.dogKey))
              => /\ out'.resp = DuplicateKeyError
                 /\ nfts' = nfts
                 /\ pc'[h] = "idle"]_vars

C1_Witness ==
    /\ out.op = "generate"
    /\ out.resp = DuplicateKeyError
    /\ HasKey(out.dogKey)

\* C2 (as claimed): while the generate requests received so far have pairwise
\* distinct dogKeys, each of them that has been answered has succeeded, and
\* the stored ids are pairwise distinct.
C2_DistinctKeysAllSucceed ==
    /\ (out.op = "generate" /\ \A k \in Keys : keyCalls[k] <= 1)
           => out.resp.http = 200
    /\ \A i, j \in 1..Len(nfts) : nfts[i].id = nfts[j].id => i = j

\* what the k-th of four sequential status reads of a fresh record returns
ExpectedProgress == <<75, 100, 100, 100>>
ExpectedStatus   == <<"generating", "ready", "ready", "ready">>
ClaimedProgress  == <<25, 50, 75, 100>>
ClaimedStatus    == <<"generating", "generating", "generating", "ready">>

Sequential(id) == ~hist[id].raced

\* C3 (amended): for a record whose generate request has been answered and
\* whose requests never overlap, the first four status reads by its owner
\* return progress 75, 100, 100, 100 and status generating, ready, ready,
\* ready; imageUrl is null in the first response and the url of the record
\* from the second on.
C3_FourPollsFromFifty ==
    (StatusOk /\ Sequential(out.resp.body.id) /\ out.nth \in 1..4)
        => /\ out.resp.body.progress = ExpectedProgress[out.nth]
           /\ out.resp.body.status = ExpectedStatus[out.nth]
           /\ out.resp.body.imageUrl =
                  IF out.nth = 1 THEN NULL ELSE ImageUrl(out.resp.body.id)

C3_Witness ==
    /\ StatusOk
    /\ Sequential(out.resp.body.id)
    /\ out.nth = 4
    /\ out.resp.body.progress = 100

\* C3 (as claimed): the four reads return progress 25, 50, 75, 100 and status
\* generating, generating, generating, ready; imageUrl is null in the first
\* three responses and non-null in the fourth.
C3_FourPollsFromZero ==
    (StatusOk /\ Sequential(out.resp.body.id) /\ out.nth \in 1..4)
        => /\ out.resp.body.progress = ClaimedProgress[out.nth]
           /\ out.resp.body.status = ClaimedStatus[out.nth]
           /\ (out.resp.body.imageUrl = NULL) <=> (out.nth < 4)

\* C4 (as claimed): every stored record with status ready has an imageUrl
\* and progress 100.
C4_ReadyIsComplete ==
    \A r \in Rows(nfts) :
        r.status = "ready" => r.imageUrl # NULL /\ r.progress = ProgressMax

\* C5 (as claimed): no step lowers the stored progress of a record, and a
\* stored progress of 100 goes with status ready.
C5_ProgressMonotone ==
    [][/\ \A i \in 1..Len(nfts) : nfts'[i].progress >= nfts[i].progress
       /\ \A r \in Rows(nfts') : r.progress = ProgressMax => r.status = "ready"]_vars

\* C6 (as claimed): no two stored records have the same name.
C6_NamesUnique ==
    \A i, j \in 1..Len(nfts) : nfts[i].name = nfts[j].name => i = j

\* C7 (as claimed): a status read by the owner of a record whose status is
\* ready returns progress 100 and status ready, and leaves the table as it
\* was.
C7_ReadyPollIdempotent ==
    [][\A h \in Handlers, id \in PollIds, w \in Wallets :
          (/\ get_nft_status_query(h, id, w)
           /\ \E r \in Rows(nfts) :
                  r.id = id /\ r.walletAddress = w /\ r.status = "ready")
              => /\ out'.resp.http = 200
                 /\ out'.resp.body.progress = ProgressMax
                 /\ out'.resp.body.status = "ready"
                 /\ nfts' = nfts
                 /\ pc'[h] = "idle"]_vars

\* C8: a status read with the id of a stored record and another owner fails
\* with NotFoundError (404, NFT_NOT_FOUND), as a read of an id that is not
\* stored does, ends there, and leaves the table as it was.
C8_WrongOwnerNotFound ==
    [][\A h \in Handlers, id \in PollIds, w \in Wallets :
          (/\ get_nft_status_query(h, id, w)
           /\ \A r \in Rows(nfts) : r.id = id => r.walletAddress # w)
              => /\ out'.resp = NotFoundError
                 /\ nfts' = nfts
                 /\ pc'[h] = "idle"]_vars

C8_Witness ==
    /\ out.op = "status"
    /\ out.what = "wrongowner"
    /\ out.resp = NotFoundError
    /\ nfts # <<>>

\* C9 (as claimed): no status read loads a record before the second commit
\* of its generate request, so every status response shows what it would
\* show had the record been inserted with progress 50: progress 75 or 100.
C9_IntermediateUnobservable ==
    /\ \A h \in Handlers :
           pc[h] = "st_commit" => nft[h].progress >= CreatedProgress
    /\ StatusOk => out.resp.body.progress >= CreatedProgress + ProgressStep

\* C10: no two stored records share a dogKey and no two share an id, however
\* the generate handlers interleave; an insert that would duplicate either is
\* therefore not added.
C10_KeysAndIdsUnique ==
    \A i, j \in 1..Len(nfts) :
        (nfts[i].dogKey = nfts[j].dogKey \/ nfts[i].id = nfts[j].id) => i = j

\* an insert was rejected for a dogKey stored between the lookup and the insert
C10_Witness ==
    /\ out.op = "generate"
    /\ out.resp = IntegrityError
    /\ HasKey(out.dogKey)

====
